---- MODULE Spec2Model ----
(***************************************************************************)
(* Model of the conversational routing workflow of backend.py and of its   *)
(* two callers: the Streamlit chat script app.py and the POST /query       *)
(* handler.  run_workflow is an async function; it is cut at its awaits of *)
(* Runner.run, the only points where another request can run.              *)
(*                                                                         *)
(* Python values that can be None are tagged tuples: PyStr(s), PyNone,     *)
(* PyObj(d).  A dict is a function whose DOMAIN is its set of keys.        *)
(***************************************************************************)
EXTENDS Naturals, Sequences, FiniteSets, TLC

VARIABLES
    hist,        \* per call: the caller's conversation_history list
    input,       \* per call: input_as_text
    pc,          \* per call: position of run_workflow
    conv,        \* per call: the local list conversation_history
    calls,       \* per call: the Runner.run invocations made, in order
    returned,    \* per call: how many of them have returned or raised
    newItems,    \* per call: new_items of each stage that returned
    rewriteText, \* per call: query_rewrite_text
    finalOutput, \* per call: classify_result_temp.final_output
    failedAt,    \* per call: where the exception was raised
    exc,         \* per call: str(e) of the exception
    result,      \* per call: the dict returned by run_workflow
    history,     \* st.session_state.history
    shown,       \* what the last run of the chat script displayed
    nmsg,        \* number of chat messages submitted so far
    httpOut      \* per request: outcome of POST /query

vars == <<hist, input, pc, conv, calls, returned, newItems, rewriteText,
          finalOutput, failedAt, exc, result, history, shown, nmsg, httpOut>>

wfvars == <<hist, input, pc, conv, calls, returned, newItems, rewriteText,
            finalOutput, failedAt, exc, result>>

(* ---------------------------------------------------------------- bounds *)

\* Longest conversation history a caller passes (above the window).
MaxHist == 14
\* Histories up to this length are enumerated over every kind of entry.
MaxFree == 1
\* Chat messages submitted in one session.
MaxMsgs == 3

\* backend.py: MAX_TURNS
MAX_TURNS == 12

Reqs == {1, 2}

(* ---------------------------------------------------------- Python values *)

PyNone == <<"NoneType">>
PyStr(s) == <<"str", s>>
PyObj(d) == <<"ClassifySchema", d>>
PyDict(d) == <<"dict", d>>
IsNone(v) == v[1] = "NoneType"
IsStr(v) == v[1] = "str"

\* dict.get(key, default)
Get(d, key, default) == IF key \in DOMAIN d THEN d[key] ELSE default

\* The empty dict.
EmptyDict == [k \in {} |-> PyNone]

\* Python truthiness of None, str and dict values, and `a or b`.
Truthy(v) ==
    CASE v[1] = "NoneType" -> FALSE
      [] v[1] = "str" -> v[2] # ""
      [] v[1] = "dict" -> DOMAIN v[2] # {}
      [] OTHER -> TRUE
PyOr(a, b) == IF Truthy(a) THEN a ELSE b

\* seq[-n:]
LastN(seq, n) ==
    IF Len(seq) <= n THEN seq ELSE SubSeq(seq, Len(seq) - n + 1, Len(seq))

(* ------------------------------------------------------ transcript items *)

Block(kind, text) == [type |-> kind, text |-> text]
Item(role, kind, text) == [role |-> role, content |-> <<Block(kind, text)>>]

\* _msg_to_block(role, text): role and text are Python values.
_msg_to_block(role, text) ==
    LET t == PyOr(text, PyStr(""))[2] IN
    IF role = PyStr("assistant") THEN Item("assistant", "output_text", t)
    ELSE IF role = PyStr("system") THEN Item("system", "summary_text", t)
    ELSE Item("user", "input_text", t)

\* The item of the current user turn, and the per-stage instruction items.
UserItem(text) == Item("user", "input_text", text)

\* WorkflowInput(...): pydantic validation of conversation_history against
\* List[Dict[str, str]]: every value of every entry must be a str.
ValidHistory(h) ==
    \A i \in 1..Len(h) : \A k \in DOMAIN h[i] : IsStr(h[i][k])

\* run_workflow, steps 1 and 2: the transcript before the first stage.
\* Variant of Prior without the window: the whole history is kept.
PriorWholeHistory(h) == h
Prior(h) == LastN(h, MAX_TURNS)
BuildTranscript(h, x) ==
    LET prior == Prior(h) IN
    [i \in 1..Len(prior) |->
        _msg_to_block(Get(prior[i], "role", PyStr("user")),
                      Get(prior[i], "content", PyStr("")))]
    \o <<UserItem(x)>>

(* ------------------------------------------------- the agent service *)

\* Agent names (Agent(name=...)) by stage.
RewriteAgent == "Query rewrite"
ClassifyAgent == "Classify"
Responders == {"Internal Q&A", "External fact finding", "Agent"}

\* What Runner.run can return for the rewrite stage: final_output_as(str)
\* and the new_items, already as input items.
RewriteOutcomes ==
    { [text |-> "rq1", items |-> <<>>],
      [text |-> "rq2", items |-> <<Item("assistant", "output_text", "rq2")>>] }

\* operating_procedure values of a classify output.
OpValues ==
    { PyStr("q-and-a"), PyStr("fact-finding"), PyStr(""), PyStr("Q-AND-A"),
      PyStr("research"), PyNone }

\* final_output of the classify stage.  The agent is declared with
\* output_type=ClassifySchema, so a run that returns carries an object (an
\* output that does not parse makes Runner.run raise, see StageFail); its
\* model_dump() gives a dict with the field, a dict without it, or None.
FinalOutputs ==
    { PyObj(PyDict([operating_procedure |-> v])) : v \in OpValues }
    \cup { PyObj(PyDict(EmptyDict)), PyObj(PyNone) }

ClassifyItemSets == { <<>>, <<Item("assistant", "output_text", "cls")>> }

\* Final answers of a responder; the empty answer is one of them.
Answers == {"", "ans"}

\* str(e) of an exception raised by Runner.run.
ServiceErrors == {"service unavailable"}
AttributeErrorText == "'NoneType' object has no attribute 'model_dump'"
\* The first line of str(e) of pydantic's ValidationError for history h: the
\* number of values that are not a str.  (The lines after it name each
\* location, conversation_history.<i>.<key>, and the pydantic version.)
ValidationErrorText(h) ==
    LET bad == { <<i, k>> \in (1..Len(h)) \X {"role", "content"} :
                    k \in DOMAIN h[i] /\ ~IsStr(h[i][k]) }
        n == Cardinality(bad)
    IN ToString(n) \o " validation error" \o (IF n = 1 THEN "" ELSE "s")
         \o " for WorkflowInput"

(* --------------------------------------------------------- run_workflow *)

NoResult == <<>>
NoItems == [s \in {} |-> <<>>]

\* Runner.run(agent, input=inp): one more invocation of the service.
\* Variant of Invoke that issues the request a second time.
InvokeWithRetry(cl, r, agentName, inp) ==
    [cl EXCEPT ![r] = @ \o << [agent |-> agentName, input |-> inp],
                              [agent |-> agentName, input |-> inp] >>]
Invoke(cl, r, agentName, inp) ==
    [cl EXCEPT ![r] = Append(@, [agent |-> agentName, input |-> inp])]

\* conversation_history.extend(items) on the list local to call r.
\* Variant of Extend on one list shared by all calls (a module-level list).
ExtendShared(c, r, items) == [q \in DOMAIN c |-> c[q] \o items]
Extend(c, r, items) == [c EXCEPT ![r] = @ \o items]

\* Stage inputs.
RewriteInput(c, x) == c \o <<UserItem("Original question: " \o x)>>
\* Variant of ClassifyInput that embeds the raw input, not the rewritten one.
ClassifyInputRawQuestion(c, x, q) == c \o <<UserItem("Question: " \o x)>>
ClassifyInput(c, x, q) == c \o <<UserItem("Question: " \o q)>>
ResponderInput(c) == c

\* op = (classify_parsed or {}).get("operating_procedure", "")
OperatingProcedure(classify_parsed) ==
    Get(PyOr(classify_parsed, PyDict(EmptyDict))[2],
        "operating_procedure", PyStr(""))

\* The branch on op: the responder agent and the path it returns.
\* Variant of Branch that compares without regard to case.
BranchIgnoringCase(op) ==
    IF op \in {PyStr("q-and-a"), PyStr("Q-AND-A")} THEN "Internal Q&A"
    ELSE IF op \in {PyStr("fact-finding"), PyStr("FACT-FINDING")}
        THEN "External fact finding"
    ELSE "Agent"
Branch(op) ==
    IF op = PyStr("q-and-a") THEN "Internal Q&A"
    ELSE IF op = PyStr("fact-finding") THEN "External fact finding"
    ELSE "Agent"
PathOf(agentName) ==
    CASE agentName = "Internal Q&A" -> "internal_q_a"
      [] agentName = "External fact finding" -> "external_fact_finding"
      [] OTHER -> "agent"

\* An exception leaves run_workflow: nothing after the raising line runs.
\* Variant of Abort that catches the exception and returns a result.
AbortSwallowed(r, where, msg) ==
    /\ pc' = [pc EXCEPT ![r] = "done"]
    /\ failedAt' = [failedAt EXCEPT ![r] = where]
    /\ exc' = [exc EXCEPT ![r] = msg]
    /\ result' = [result EXCEPT ![r] =
                    [final_answer |-> msg, path |-> "agent"]]
Abort(r, where, msg) ==
    /\ pc' = [pc EXCEPT ![r] = "error"]
    /\ failedAt' = [failedAt EXCEPT ![r] = where]
    /\ exc' = [exc EXCEPT ![r] = msg]
    /\ UNCHANGED result

\* WorkflowInput(input_as_text=x, conversation_history=h) followed by
\* run_workflow up to its first await.
RunWorkflow(r, h, x) ==
    /\ hist' = [hist EXCEPT ![r] = h]
    /\ input' = [input EXCEPT ![r] = x]
    /\ returned' = [returned EXCEPT ![r] = 0]
    /\ newItems' = [newItems EXCEPT ![r] = NoItems]
    /\ rewriteText' = [rewriteText EXCEPT ![r] = ""]
    /\ finalOutput' = [finalOutput EXCEPT ![r] = PyNone]
    /\ result' = [result EXCEPT ![r] = NoResult]
    /\ IF ValidHistory(h)
         THEN /\ conv' = [conv EXCEPT ![r] = BuildTranscript(h, x)]
              /\ calls' = Invoke([calls EXCEPT ![r] = <<>>], r, RewriteAgent,
                                 RewriteInput(BuildTranscript(h, x), x))
              /\ pc' = [pc EXCEPT ![r] = "rewrite"]
              /\ failedAt' = [failedAt EXCEPT ![r] = "none"]
              /\ exc' = [exc EXCEPT ![r] = ""]
         ELSE /\ conv' = [conv EXCEPT ![r] = <<>>]
              /\ calls' = [calls EXCEPT ![r] = <<>>]
              /\ pc' = [pc EXCEPT ![r] = "invalid"]
              /\ failedAt' = [failedAt EXCEPT ![r] = "input"]
              /\ exc' = [exc EXCEPT ![r] = ValidationErrorText(h)]

\* The rewrite stage returns: extend the transcript, invoke classify.
RewriteReturn(r) ==
    /\ pc[r] = "rewrite"
    /\ \E o \in RewriteOutcomes :
        /\ conv' = Extend(conv, r, o.items)
        /\ newItems' = [newItems EXCEPT ![r] = "rewrite" :> o.items]
        /\ rewriteText' = [rewriteText EXCEPT ![r] = o.text]
        /\ calls' = Invoke(calls, r, ClassifyAgent,
                           ClassifyInput(conv'[r], input[r], o.text))
    /\ returned' = [returned EXCEPT ![r] = @ + 1]
    /\ pc' = [pc EXCEPT ![r] = "classify"]
    /\ UNCHANGED <<hist, input, finalOutput, failedAt, exc, result>>

\* Runner.run raises while a stage is awaited.
StageFail(r) ==
    /\ pc[r] \in {"rewrite", "classify", "respond"}
    /\ \E e \in ServiceErrors : Abort(r, pc[r], e)
    /\ returned' = [returned EXCEPT ![r] = @ + 1]
    /\ UNCHANGED <<hist, input, conv, calls, newItems, rewriteText,
                   finalOutput>>

\* The classify stage returns: extend the transcript, read the operating
\* procedure, invoke the responder of the branch.
ClassifyReturn(r) ==
    /\ pc[r] = "classify"
    /\ returned' = [returned EXCEPT ![r] = @ + 1]
    /\ \E fo \in FinalOutputs, its \in ClassifyItemSets :
        /\ conv' = Extend(conv, r, its)
        /\ newItems' = [newItems EXCEPT ![r] = @ @@ ("classify" :> its)]
        /\ finalOutput' = [finalOutput EXCEPT ![r] = fo]
        \* Line 216 dereferences final_output before the guard of line
        \* 217; no member of FinalOutputs is None, so this never raises.
        /\ IF IsNone(fo)
             THEN /\ Abort(r, "model_dump", AttributeErrorText)
                  /\ UNCHANGED calls
             ELSE /\ calls' = Invoke(calls, r,
                                     Branch(OperatingProcedure(fo[2])),
                                     ResponderInput(conv'[r]))
                  /\ pc' = [pc EXCEPT ![r] = "respond"]
                  /\ UNCHANGED <<failedAt, exc, result>>
    /\ UNCHANGED <<hist, input, rewriteText>>

\* The responder returns: run_workflow returns final_answer and path.
ResponderReturn(r) ==
    /\ pc[r] = "respond"
    /\ returned' = [returned EXCEPT ![r] = @ + 1]
    /\ \E a \in Answers :
        LET its == <<Item("assistant", "output_text", a)>> IN
        /\ conv' = Extend(conv, r, its)
        /\ newItems' = [newItems EXCEPT ![r] = @ @@ ("respond" :> its)]
        /\ result' = [result EXCEPT ![r] =
              [final_answer |-> a,
               path |-> PathOf(calls[r][Len(calls[r])].agent)]]
    /\ pc' = [pc EXCEPT ![r] = "done"]
    /\ UNCHANGED <<hist, input, calls, rewriteText, finalOutput, failedAt, exc>>

Stage(r) ==
    \/ RewriteReturn(r)
    \/ ClassifyReturn(r)
    \/ ResponderReturn(r)
    \/ StageFail(r)

(* ------------------------------------------- direct calls of run_workflow *)

\* Kinds of history entry: every combination of a present, missing or None
\* role and content.
RoleValues == {PyStr("user"), PyStr("assistant"), PyStr("system"),
               PyStr("tool"), PyNone}
ContentValues == {PyStr("hi"), PyStr(""), PyNone}
Entries ==
    { [role |-> ro, content |-> co] : ro \in RoleValues, co \in ContentValues }
    \cup { [role |-> ro] : ro \in RoleValues }
    \cup { [content |-> co] : co \in ContentValues }
    \cup { EmptyDict }

FreeHistories == UNION { [1..n -> Entries] : n \in 0..MaxFree }

\* Long histories: entry i carries the text "t<i>", and the roles cycle.
CycleEntry(i, k) ==
    LET t == PyStr("t" \o ToString(i))
        j == (i + k) % 6
    IN CASE j = 0 -> [role |-> PyStr("user"), content |-> t]
         [] j = 1 -> [role |-> PyStr("assistant"), content |-> t]
         [] j = 2 -> [role |-> PyStr("system"), content |-> t]
         [] j = 3 -> [role |-> PyStr("tool"), content |-> t]
         [] j = 4 -> [content |-> t]
         [] OTHER -> [role |-> PyStr("assistant")]
LongHistories ==
    { [i \in 1..n |-> CycleEntry(i, k)] : n \in (MaxFree + 1)..MaxHist,
                                          k \in 0..5 }

Histories == FreeHistories \cup LongHistories
Inputs == {"x1", ""}

InitWorkflow ==
    /\ pc = [r \in Reqs |-> "idle"]
    /\ conv = [r \in Reqs |-> <<>>]
    /\ calls = [r \in Reqs |-> <<>>]
    /\ returned = [r \in Reqs |-> 0]
    /\ newItems = [r \in Reqs |-> NoItems]
    /\ rewriteText = [r \in Reqs |-> ""]
    /\ finalOutput = [r \in Reqs |-> PyNone]
    /\ failedAt = [r \in Reqs |-> "none"]
    /\ exc = [r \in Reqs |-> ""]
    /\ result = [r \in Reqs |-> NoResult]

InitFront ==
    /\ history = <<>>
    /\ shown = [kind |-> "none"]
    /\ nmsg = 0
    /\ httpOut = [r \in Reqs |-> [kind |-> "none"]]

\* One direct call: its arguments are drawn in the initial state.
Init ==
    /\ InitWorkflow
    /\ InitFront
    /\ hist \in [Reqs -> Histories]
    /\ input \in [Reqs -> Inputs]
    /\ hist[2] = <<>> /\ input[2] = ""

Call(r) ==
    /\ pc[r] = "idle"
    /\ RunWorkflow(r, hist[r], input[r])
    /\ UNCHANGED <<history, shown, nmsg, httpOut>>

Step(r) == Stage(r) /\ UNCHANGED <<history, shown, nmsg, httpOut>>

Next == Call(1) \/ Step(1)

Spec == Init /\ [][Next]_vars

(* ------------------------------------------------ concurrent direct calls *)

\* Two calls suspended at their own awaits, interleaved in every order.
ConcHistories == { <<>> } \cup { [i \in 1..MaxHist |-> CycleEntry(i, k)] : k \in {1} }

InitConc ==
    /\ InitWorkflow
    /\ InitFront
    /\ hist \in [Reqs -> ConcHistories]
    /\ input \in [Reqs -> Inputs]

NextConc == \E r \in Reqs : Call(r) \/ Step(r)

SpecConc == InitConc /\ [][NextConc]_vars

(* ------------------------------------------------------- app.py, the chat *)

Prompts == {"p1", "p2"}

Turn(role, content) == [role |-> role, content |-> content]

\* [{"role": m.get("role", "user"), "content": m.get("content", "")} for m in
\*  st.session_state.history]
HistoryPayload(h) ==
    [i \in 1..Len(h) |->
        [role |-> PyStr(Get(h[i], "role", "user")),
         content |-> PyStr(Get(h[i], "content", ""))]]

\* result.get("final_answer") or "No answer returned."
AnswerOf(res) ==
    PyOr(PyStr(Get(res, "final_answer", "")), PyStr("No answer returned."))[2]

\* (result.get("path") or "unknown").replace("_", " ")
RouteLabel(res) ==
    LET path == PyOr(PyStr(Get(res, "path", "")), PyStr("unknown"))[2] IN
    CASE path = "internal_q_a" -> "internal q a"
      [] path = "external_fact_finding" -> "external fact finding"
      [] OTHER -> path

\* err_msg = f"Error while running agent: {e}"
ErrMsg(e) == "Error while running agent: " \o e

\* st.session_state.history.append(...) in the handler's two outcomes.
HistoryAfterError(h, e) == Append(h, Turn("assistant", ErrMsg(e)))
HistoryAfterAnswer(h, res) == Append(h, Turn("assistant", AnswerOf(res)))

\* The frame of a finished call is gone; the caller keeps its own variables
\* (the prompt, result, the exception).
Discard(r) ==
    /\ pc' = [pc EXCEPT ![r] = "idle"]
    /\ hist' = [hist EXCEPT ![r] = <<>>]
    /\ conv' = [conv EXCEPT ![r] = <<>>]
    /\ calls' = [calls EXCEPT ![r] = <<>>]
    /\ returned' = [returned EXCEPT ![r] = 0]
    /\ newItems' = [newItems EXCEPT ![r] = NoItems]
    /\ rewriteText' = [rewriteText EXCEPT ![r] = ""]
    /\ finalOutput' = [finalOutput EXCEPT ![r] = PyNone]
    /\ failedAt' = [failedAt EXCEPT ![r] = "none"]
    /\ UNCHANGED <<input, result, exc>>

\* A message is typed: the script records it in the history and echoes it
\* (lines 41-45).
Submit ==
    /\ pc[1] = "idle"
    /\ nmsg < MaxMsgs
    /\ \E p \in Prompts :
        /\ history' = Append(history, Turn("user", p))
        /\ input' = [input EXCEPT ![1] = p]
    /\ pc' = [pc EXCEPT ![1] = "echoed"]
    /\ nmsg' = nmsg + 1
    /\ UNCHANGED <<hist, conv, calls, returned, newItems, rewriteText,
                   finalOutput, failedAt, exc, result, shown, httpOut>>

\* The script reaches the call (lines 48-64): run_workflow gets the history
\* and the prompt, and asyncio.run blocks the script until the call ends.
CallWorkflow ==
    /\ pc[1] = "echoed"
    /\ RunWorkflow(1, HistoryPayload(history), input[1])
    /\ UNCHANGED <<history, shown, nmsg, httpOut>>

\* A widget event arrived while the script was running: the next element
\* call of the handler (st.chat_message, st.markdown, st.spinner at lines
\* 44-49, st.markdown at 73, st.error at 80) raises Streamlit's rerun
\* exception, which is no Exception and so passes the except clause.  The
\* handler ends there; nothing after that line runs.  The awaits of
\* run_workflow make no element call, so a call in flight is not cut.
Interrupt ==
    /\ pc[1] \in {"echoed", "done", "error", "invalid"}
    /\ shown' = [kind |-> "interrupted"]
    /\ Discard(1)
    /\ UNCHANGED <<history, nmsg, httpOut>>

\* run_workflow returned: show route and answer, record the answer.
ShowAnswer ==
    /\ pc[1] = "done"
    /\ history' = HistoryAfterAnswer(history, result[1])
    /\ shown' = [kind |-> "answer", route |-> RouteLabel(result[1]),
                 text |-> AnswerOf(result[1])]
    /\ Discard(1)
    /\ UNCHANGED <<nmsg, httpOut>>

\* except Exception as e: show and record the error message.
ShowError ==
    /\ pc[1] \in {"error", "invalid"}
    /\ history' = HistoryAfterError(history, exc[1])
    /\ shown' = [kind |-> "error", text |-> ErrMsg(exc[1])]
    /\ Discard(1)
    /\ UNCHANGED <<nmsg, httpOut>>

\* The "Clear chat" button.
Clear ==
    /\ pc[1] = "idle"
    /\ history' = <<>>
    /\ shown' = [kind |-> "none"]
    /\ UNCHANGED <<wfvars, nmsg, httpOut>>

InitChat ==
    /\ InitWorkflow
    /\ InitFront
    /\ hist = [r \in Reqs |-> <<>>]
    /\ input = [r \in Reqs |-> ""]

ChatStep == Stage(1) /\ UNCHANGED <<history, shown, nmsg, httpOut>>

NextChat ==
    \/ Submit
    \/ CallWorkflow
    \/ ChatStep
    \/ ShowAnswer
    \/ ShowError
    \/ Interrupt
    \/ Clear

SpecChat == InitChat /\ [][NextChat]_vars

(* ------------------------------------------------- backend.py, POST /query *)

\* query(req): run_workflow(WorkflowInput(input_as_text=req.input_text));
\* conversation_history takes its default, the empty list.
Query(r) ==
    /\ pc[r] = "idle"
    /\ httpOut[r].kind = "none"
    /\ \E t \in Inputs : RunWorkflow(r, <<>>, t)
    /\ UNCHANGED <<history, shown, nmsg, httpOut>>

\* The handler returns what run_workflow returned.
QueryReturn(r) ==
    /\ pc[r] = "done"
    /\ httpOut' = [httpOut EXCEPT ![r] = [kind |-> "response", body |-> result[r]]]
    /\ Discard(r)
    /\ UNCHANGED <<history, shown, nmsg>>

\* The handler has no except clause: the exception leaves query().
QueryRaise(r) ==
    /\ pc[r] \in {"error", "invalid"}
    /\ httpOut' = [httpOut EXCEPT ![r] = [kind |-> "unhandled", error |-> exc[r]]]
    /\ Discard(r)
    /\ UNCHANGED <<history, shown, nmsg>>

NextHttp == \E r \in Reqs : Query(r) \/ Step(r) \/ QueryReturn(r) \/ QueryRaise(r)

SpecHttp == InitChat /\ [][NextHttp]_vars

(* ================================================================ claims *)

\* What the specification expects of one history entry whose values are
\* strings: the item by role, the text kept, defaults for missing keys.
ExpectedItem(e) ==
    LET role == IF "role" \in DOMAIN e THEN e["role"][2] ELSE "user"
        text == IF "content" \in DOMAIN e /\ IsStr(e["content"])
                  THEN e["content"][2] ELSE ""
    IN CASE role = "assistant" ->
              [role |-> "assistant",
               content |-> <<[type |-> "output_text", text |-> text]>>]
         [] role = "system" ->
              [role |-> "system",
               content |-> <<[type |-> "summary_text", text |-> text]>>]
         [] OTHER ->
              [role |-> "user",
               content |-> <<[type |-> "input_text", text |-> text]>>]

\* The transcript the specification expects for history h and input x, with
\* the window of 12 turns written out.
ExpectedTranscript(h, x) ==
    LET n == Len(h)
        m == IF n < 12 THEN n ELSE 12
    IN [i \in 1..(m + 1) |->
          IF i <= m THEN ExpectedItem(h[n - m + i])
          ELSE [role |-> "user",
                content |-> <<[type |-> "input_text", text |-> x]>>]]

Started(r) == pc[r] \notin {"idle", "echoed", "invalid"}
Classified(r) == Started(r) /\ "classify" \in DOMAIN newItems[r]

\* The operating procedure the classify output carries, "" when the output,
\* its dump or the field is null or absent.
ClaimedOp(fo) ==
    IF IsNone(fo) \/ IsNone(fo[2]) THEN ""
    ELSE IF "operating_procedure" \notin DOMAIN fo[2][2] THEN ""
    ELSE IF IsNone(fo[2][2]["operating_procedure"]) THEN ""
    ELSE fo[2][2]["operating_procedure"][2]
ClaimedResponder(op) ==
    CASE op = "q-and-a" -> "Internal Q&A"
      [] op = "fact-finding" -> "External fact finding"
      [] OTHER -> "Agent"
ClaimedPath(op) ==
    CASE op = "q-and-a" -> "internal_q_a"
      [] op = "fact-finding" -> "external_fact_finding"
      [] OTHER -> "agent"

\* C1: once classify has returned, the one responder invoked and the path
\* returned are decided by operating_procedure alone: "q-and-a" gives the
\* internal Q&A responder and internal_q_a, "fact-finding" the external
\* responder and external_fact_finding, and every other value, a null or
\* absent classification output included, the fallback responder and agent.
C1_RoutingByProcedure ==
    \A r \in Reqs :
        Classified(r) =>
            LET op == ClaimedOp(finalOutput[r]) IN
            /\ Len(calls[r]) = 3
            /\ calls[r][3].agent = ClaimedResponder(op)
            /\ pc[r] = "done" => result[r].path = ClaimedPath(op)

\* Classify gave the procedure in capitals and the fallback answered.
C1_Witness ==
    /\ pc[1] = "done"
    /\ finalOutput[1] = PyObj(PyDict([operating_procedure |-> PyStr("Q-AND-A")]))
    /\ calls[1][3].agent = "Agent"
    /\ result[1].path = "agent"

\* C2: the transcript built before the first stage is the last min(len, 12)
\* turns of the history in order, each mapped by its role with its text
\* kept, followed by one user input_text item holding the new input.
C2_Transcript ==
    \A r \in Reqs :
        pc[r] = "rewrite" =>
            /\ conv[r] = ExpectedTranscript(hist[r], input[r])
            /\ calls[r][1].input[Len(conv[r])] =
                   [role |-> "user",
                    content |-> <<[type |-> "input_text", text |-> input[r]]>>]

\* A 14-turn history was cut to the window: 12 prior items and the input,
\* the first kept item being the third turn, and a system turn among them.
C2_Witness ==
    /\ pc[1] = "rewrite"
    /\ Len(hist[1]) > 12
    /\ Len(conv[1]) = 13
    /\ conv[1][1].content[1].text = hist[1][Len(hist[1]) - 11]["content"][2]
    /\ \E i \in 1..12 : conv[1][i].content[1].type = "summary_text"

StageIndex(s) ==
    CASE s = "rewrite" -> 1 [] s = "classify" -> 2 [] s = "respond" -> 3
      [] OTHER -> 0

\* C3: when a stage invocation fails, the call ends in an error: no result
\* is returned, no later stage was invoked and the failed one is not
\* invoked again.
C3_FailureAborts ==
    \A r \in Reqs :
        failedAt[r] \in {"rewrite", "classify", "respond"} =>
            /\ pc[r] = "error"
            /\ result[r] = NoResult
            /\ Len(calls[r]) = StageIndex(failedAt[r])
            /\ returned[r] = Len(calls[r])
            /\ \A i, j \in 1..Len(calls[r]) :
                   calls[r][i].agent = calls[r][j].agent => i = j

\* The classify invocation failed after rewrite had returned.
C3_Witness ==
    /\ failedAt[1] = "classify"
    /\ pc[1] = "error"
    /\ Len(calls[1]) = 2
    /\ "rewrite" \in DOMAIN newItems[1]

\* C4: the invocations of one call are ordered and never overlap: rewrite,
\* then classify once rewrite returned, then one responder once classify
\* returned; a call that returns a result made exactly these three.
C4_StageOrder ==
    \A r \in Reqs :
        /\ Len(calls[r]) <= 3
        /\ returned[r] <= Len(calls[r])
        /\ Len(calls[r]) <= returned[r] + 1
        /\ Len(calls[r]) >= 1 => calls[r][1].agent = "Query rewrite"
        /\ Len(calls[r]) >= 2 => calls[r][2].agent = "Classify"
        /\ Len(calls[r]) >= 3 =>
               calls[r][3].agent \in
                   {"Internal Q&A", "External fact finding", "Agent"}
        /\ pc[r] = "done" =>
               /\ Len(calls[r]) = 3
               /\ returned[r] = 3
               /\ result[r] # NoResult

\* A call returned a result after its three invocations.
C4_Witness ==
    /\ pc[1] = "done"
    /\ Len(calls[1]) = 3
    /\ calls[1][3].agent = "External fact finding"
    /\ result[1].path = "external_fact_finding"

\* The session's turns before the message being handled, as passed on.
EarlierTurns == HistoryPayload(SubSeq(history, 1, Len(history) - 1))

\* C5: for a message submitted in the chat, the history handed to
\* run_workflow holds the earlier turns only, so the transcript built for
\* the rewrite stage holds the new message once, as its last item, and the
\* window holds only turns that precede it.
C5_NewMessageOnce ==
    pc[1] = "rewrite" =>
        /\ hist[1] = EarlierTurns
        /\ conv[1] = ExpectedTranscript(EarlierTurns, input[1])

\* C6: a request that ends in a stage-level error is turned by the POST
\* /query handler into a presented error outcome; the exception never
\* leaves the handler.
C6_HttpErrorPresented ==
    \A r \in Reqs : httpOut[r].kind \in {"none", "response", "error"}

\* The only defects of h are missing roles and missing or null contents.
OnlyClaimedDefects(h) ==
    \A i \in 1..Len(h) : "role" \in DOMAIN h[i] => IsStr(h[i]["role"])

\* C7: a history whose entries lack a role, or lack a content or have a null
\* one, never makes the request fail: the input and the transcript are
\* built, with role user and text "" in place of what is missing.
C7_MalformedNeverFatal ==
    \A r \in Reqs :
        (pc[r] # "idle" /\ OnlyClaimedDefects(hist[r])) =>
            /\ pc[r] # "invalid"
            /\ pc[r] = "rewrite" =>
                   conv[r] = ExpectedTranscript(hist[r], input[r])

ItemsOf(r, stage) ==
    IF stage \in DOMAIN newItems[r] THEN newItems[r][stage] ELSE <<>>

\* The state of call r holds only what is its own.
OwnState(r) ==
    LET B == ExpectedTranscript(hist[r], input[r]) IN
    /\ conv[r] = B \o ItemsOf(r, "rewrite") \o ItemsOf(r, "classify")
                   \o ItemsOf(r, "respond")
    /\ calls[r][1].input[Len(B)].content[1].text = input[r]
    /\ SubSeq(calls[r][1].input, 1, Len(B)) = B
    /\ Len(calls[r]) >= 2 =>
           /\ SubSeq(calls[r][2].input, 1, Len(B)) = B
           /\ Len(calls[r][2].input) = Len(B) + Len(ItemsOf(r, "rewrite")) + 1
    /\ Len(calls[r]) >= 3 =>
           calls[r][3].input =
               B \o ItemsOf(r, "rewrite") \o ItemsOf(r, "classify")
    /\ pc[r] = "done" =>
           result[r].path = ClaimedPath(ClaimedOp(finalOutput[r]))

\* C8: with calls interleaved in any order, the transcript of each call
\* holds only what comes from its own history, its own input and its own
\* stages, its stage inputs and its path are those it would have alone, and
\* no step changes the list a caller passed.
C8_Isolation ==
    /\ [](\A r \in Reqs : Started(r) => OwnState(r))
    /\ [][hist' = hist]_vars

\* Both calls are in flight with different histories, one of them already
\* past rewrite with an item appended.
C8_Witness ==
    /\ pc[1] = "classify"
    /\ pc[2] = "rewrite"
    /\ hist[1] # hist[2]
    /\ ItemsOf(1, "rewrite") # <<>>

\* C9: the transcript grows by appending only.  With B the base transcript:
\* rewrite gets B and one instruction item with the raw input; classify gets
\* B, rewrite's new items and one instruction item with rewrite's output;
\* the responder gets B, rewrite's and classify's new items and nothing
\* else, so no instruction item reaches a later stage.
C9_StageInputs ==
    \A r \in Reqs :
        Started(r) =>
            LET B == BuildTranscript(hist[r], input[r])
                instr(t) == [role |-> "user",
                             content |-> <<[type |-> "input_text", text |-> t]>>]
            IN
            /\ calls[r][1].input =
                   B \o <<instr("Original question: " \o input[r])>>
            /\ Len(calls[r]) >= 2 =>
                   calls[r][2].input =
                       B \o newItems[r]["rewrite"]
                         \o <<instr("Question: " \o rewriteText[r])>>
            /\ Len(calls[r]) >= 3 =>
                   calls[r][3].input =
                       B \o newItems[r]["rewrite"] \o newItems[r]["classify"]

\* A responder was invoked after both earlier stages appended an item.
C9_Witness ==
    /\ pc[1] = "respond"
    /\ newItems[1]["rewrite"] # <<>>
    /\ newItems[1]["classify"] # <<>>
    /\ Len(hist[1]) > 0
    /\ Len(calls[1][3].input) = Len(conv[1])

Alternating(h) ==
    /\ \A i \in 1..Len(h) :
           h[i].role = IF i % 2 = 1 THEN "user" ELSE "assistant"

\* The session history as claim C10 describes it, given the text the
\* assistant turn of a successful request holds.
HistoryShape(answerText) ==
    /\ Alternating(history)
    /\ pc[1] # "idle" =>
           /\ Len(history) % 2 = 1
           /\ history[Len(history)] = [role |-> "user", content |-> input[1]]
    /\ pc[1] = "idle" =>
           /\ Len(history) % 2 = 0
           /\ shown.kind = "none" => history = <<>>
           /\ shown.kind = "answer" =>
                  /\ history[Len(history)] =
                         [role |-> "assistant", content |-> answerText]
                  /\ history[Len(history) - 1] =
                         [role |-> "user", content |-> input[1]]
           /\ shown.kind = "error" =>
                  /\ history[Len(history)] =
                         [role |-> "assistant",
                          content |-> "Error while running agent: " \o exc[1]]
                  /\ history[Len(history) - 1] =
                         [role |-> "user", content |-> input[1]]

\* C10 as stated: the history alternates user and assistant turns from a
\* user turn, has even length between messages, each message adds its
\* prompt and then one assistant turn, the final answer on success and the
\* error message on failure, and Clear empties it.
C10_AsStated ==
    HistoryShape(IF result[1] = NoResult THEN "" ELSE result[1].final_answer)

====
